---- MODULE Spec2Model ----
(***************************************************************************)
(* MMM-Tube-Times node helper (src/node_helper.js).                        *)
(*                                                                         *)
(* The helper receives socket notifications, starts one HTTP GET per       *)
(* notification and answers from the promise's then/catch callbacks.       *)
(* JavaScript values that may be null/undefined or of an unexpected shape  *)
(* are records with a "type" field; string-typed fields are TLA+ strings,  *)
(* "" standing for every falsy value of such a field.                      *)
(***************************************************************************)
EXTENDS Integers, Sequences, FiniteSets, TLC

VARIABLES url, serviceURL, result, tubeStatus, inflight, sent, nreq, arg, ret

vars == <<url, serviceURL, result, tubeStatus, inflight, sent, nreq, arg, ret>>

helperVars == <<url, serviceURL, result, tubeStatus, inflight, sent, nreq>>

(* ---------------------------- bounds ----------------------------------- *)

\* Number of socket notifications the helper receives in one behaviour.
MaxRequests == 2

\* Longest lineStatuses array drawn as input of the worst-status loop.
MaxStatuses == 4

\* Longest lineStatuses array drawn as input of the message building.
MaxTextStatuses == 3

\* Longest top-level disruptions array drawn as input.
MaxDisruptions == 2

\* Largest statusSeverity of the TFL scheme (typedef: "Severity level: 0-20").
MaxSeverity == 20

(* ------------------------- JavaScript values --------------------------- *)

JsNull == [type |-> "null"]

JsUndefined == [type |-> "undefined"]

\* A non-array object without a length property, e.g. {} or {message: ...}.
JsObject == [type |-> "object"]

\* A non-empty string body (axios hands back the raw text when it is no JSON).
JsString == [type |-> "string"]

JsArray(items) == [type |-> "array", items |-> items]

\* undefined / null in a string-typed field (this.url, this.tubeStatus, ...).
UndefinedStr == "<undefined>"

NullStr == "<null>"

\* JavaScript truthiness of a string-typed field.
Truthy(s) == s \notin {"", UndefinedStr, NullStr}

(* ------------------------- mapStatusSeverity --------------------------- *)

mapStatusSeverity_SevereAsWarning(statusSeverity) ==
  IF statusSeverity \in {10, 18, 19} THEN "good"
  ELSE IF statusSeverity \in {1, 2, 3, 6, 16} THEN "severe"
  ELSE "warning"

mapStatusSeverity(statusSeverity) ==
  IF statusSeverity = 10 \/ statusSeverity = 18 \/ statusSeverity = 19 THEN "good"
  ELSE IF statusSeverity \in {1, 2, 3, 6, 16, 20} THEN "severe"
  ELSE "warning"

(* -------------------- line-status message building --------------------- *)

\* status.disruption is an object (neither undefined nor null).
HasDisruption(status) == status.disruption.type = "object"

\* The filter predicate of messagesFromStatuses.
StatusHasMessage(status) ==
  \/ Truthy(status.reason)
  \/ (HasDisruption(status) /\ Truthy(status.disruption.description))

\* The map callback of messagesFromStatuses.
StatusMessage(status) ==
  [text |-> IF Truthy(status.reason) THEN status.reason
            ELSE IF HasDisruption(status) /\ Truthy(status.disruption.description)
                 THEN status.disruption.description
                 ELSE "",
   statusSeverity |-> status.statusSeverity,
   statusSeverityDescription |-> status.statusSeverityDescription,
   category |-> IF HasDisruption(status) /\ Truthy(status.disruption.category)
                THEN status.disruption.category ELSE "",
   categoryDescription |->
                IF HasDisruption(status) /\ Truthy(status.disruption.categoryDescription)
                THEN status.disruption.categoryDescription ELSE ""]

messagesFromStatuses_NoFilter(lineStatuses) ==
  [i \in 1..Len(lineStatuses) |-> StatusMessage(lineStatuses[i])]

messagesFromStatuses(lineStatuses) ==
  LET kept == SelectSeq(lineStatuses, StatusHasMessage)
  IN  [i \in 1..Len(kept) |-> StatusMessage(kept[i])]

\* The filter predicate of messagesFromDisruptions.
DisruptionHasMessage(disruption) == Truthy(disruption.description)

\* The map callback of messagesFromDisruptions.
DisruptionMessage(disruption) ==
  [text |-> disruption.description,
   statusSeverity |-> 0,
   statusSeverityDescription |-> "",
   category |-> IF Truthy(disruption.category) THEN disruption.category ELSE "",
   categoryDescription |-> IF Truthy(disruption.categoryDescription)
                           THEN disruption.categoryDescription ELSE ""]

messagesFromDisruptions(disruptions) ==
  LET kept == SelectSeq(disruptions, DisruptionHasMessage)
  IN  [i \in 1..Len(kept) |-> DisruptionMessage(kept[i])]

allMessages(lineStatuses, disruptions) ==
  messagesFromStatuses(lineStatuses) \o messagesFromDisruptions(disruptions)

\* uniqueMessagesMap after the forEach has visited the first n messages; a
\* Map keeps its values in insertion order.
RECURSIVE uniqueMessagesMap(_, _)
uniqueMessagesMap(messages, n) ==
  IF n = 0 THEN <<>>
  ELSE LET map == uniqueMessagesMap(messages, n - 1)
           message == messages[n]
       IN  IF Truthy(message.text)
              /\ \A j \in 1..Len(map) : map[j].text # message.text
           THEN Append(map, message)
           ELSE map

combinedMessages_LastWins(messages) ==
  LET n == Len(messages)
      keep(i) == Truthy(messages[i].text)
                 /\ \A j \in (i + 1)..n : messages[j].text # messages[i].text
      idx == {i \in 1..n : keep(i)}
      nth(k) == CHOOSE i \in idx : Cardinality({j \in idx : j < i}) = k - 1
  IN  [k \in 1..Cardinality(idx) |-> messages[nth(k)]]

combinedMessages(messages) == uniqueMessagesMap(messages, Len(messages))

(* ----------------------------- worst status ---------------------------- *)

\* worstSeverity after the for loop has visited the first n statuses.
RECURSIVE worstSeverityLoop(_, _)
worstSeverityLoop(lineStatuses, n) ==
  IF n = 0 THEN 10
  ELSE LET worstSeverity == worstSeverityLoop(lineStatuses, n - 1)
           severity == lineStatuses[n].statusSeverity
       IN  IF severity # 10 /\ severity # 18 /\ severity # 19
              /\ (severity < worstSeverity \/ worstSeverity = 10)
           THEN severity
           ELSE worstSeverity

RECURSIVE worstSeverity_NoReset(_, _)
worstSeverity_NoReset(lineStatuses, n) ==
  IF n = 0 THEN 10
  ELSE LET worstSeverity == worstSeverity_NoReset(lineStatuses, n - 1)
           severity == lineStatuses[n].statusSeverity
       IN  IF severity # 10 /\ severity # 18 /\ severity # 19
              /\ severity < worstSeverity
           THEN severity
           ELSE worstSeverity

worstSeverityOf_NoReset(lineStatuses) ==
  worstSeverity_NoReset(lineStatuses, Len(lineStatuses))

worstSeverityOf(lineStatuses) == worstSeverityLoop(lineStatuses, Len(lineStatuses))

worstStatus(lineStatuses) ==
  IF Len(lineStatuses) > 0 THEN mapStatusSeverity(worstSeverityOf(lineStatuses))
  ELSE "good"

firstStatusDescription_OfWorst(lineStatuses) ==
  IF Len(lineStatuses) > 0
  THEN LET w == worstSeverityOf(lineStatuses)
           hit == {i \in 1..Len(lineStatuses) : lineStatuses[i].statusSeverity = w}
       IN  IF hit = {} THEN lineStatuses[1].statusSeverityDescription
           ELSE lineStatuses[CHOOSE i \in hit : \A j \in hit : i <= j].statusSeverityDescription
  ELSE NullStr

\* const statusSeverityDescription = lineStatuses.length > 0 ? ... : null
firstStatusDescription(lineStatuses) ==
  IF Len(lineStatuses) > 0 THEN lineStatuses[1].statusSeverityDescription
  ELSE NullStr

\* lineData.lineStatuses || [] and lineData.disruptions || []
OrEmpty(field) == IF field.type = "array" THEN field.items ELSE <<>>

\* The payload built for a non-empty response array whose first element is lineData.
LineSummary(lineData, self_serviceURL) ==
  LET lineStatuses == OrEmpty(lineData.lineStatuses)
      disruptions == OrEmpty(lineData.disruptions)
      status == worstStatus(lineStatuses)
  IN  [serviceURL |-> self_serviceURL,
       tubeStatus |-> status,
       tubeStatusDescription |->
         IF status # "good" THEN firstStatusDescription(lineStatuses) ELSE NullStr,
       combinedMessages |-> combinedMessages(allMessages(lineStatuses, disruptions))]

(* --------------------- the promise callbacks --------------------------- *)

\* Whether the then-callback of getTubeLineStatusData throws a TypeError on
\* response.data = data: reading .length of null/undefined, or reading
\* .lineStatuses of a null first element.
LineStatusThenThrows(data) ==
  \/ data.type \in {"null", "undefined"}
  \/ /\ data.type = "array"
     /\ Len(data.items) > 0
     /\ data.items[1].type \in {"null", "undefined"}

\* typedResponse.data.length > 0 (undefined > 0 is false for an object
\* without length; a non-empty string has a positive length).
LengthPositive(data) ==
  \/ data.type = "string"
  \/ (data.type = "array" /\ Len(data.items) > 0)

\* typedResponse.data[0]: an element of the array, or a one-character string,
\* whose lineStatuses and disruptions are undefined.
FirstLine(data) ==
  IF data.type = "array" /\ data.items[1].type = "line" THEN data.items[1]
  ELSE [type |-> "other", lineStatuses |-> JsUndefined, disruptions |-> JsUndefined]

\* The payload of the then-callback's notification (it does not throw on data).
LineStatusThenPayload(data, self_serviceURL) ==
  IF LengthPositive(data)
  THEN LineSummary(FirstLine(data), self_serviceURL)
  ELSE [serviceURL |-> self_serviceURL,
        tubeStatus |-> "good",
        combinedMessages |-> <<>>]

LineStatusCatchPayload_AlwaysGood(self_serviceURL, self_tubeStatus) ==
  [serviceURL |-> self_serviceURL,
   tubeStatus |-> "good",
   combinedMessages |-> <<>>]

\* The payload of the catch-callback's notification.
LineStatusCatchPayload(self_serviceURL, self_tubeStatus) ==
  [serviceURL |-> self_serviceURL,
   tubeStatus |-> IF Truthy(self_tubeStatus) THEN self_tubeStatus ELSE "good",
   combinedMessages |-> <<>>]

ArrivalsThenResult_Stale(data, self_result) == self_result

\* this.result = typedResponse.data, as sent by the then-callback.
ArrivalsThenResult(data, self_result) == data

\* One sendSocketNotification call; req, settled and data record which GET
\* promise's callback made the call and what the promise settled with.
Notification(name, payload, r, settled, data) ==
  [notification |-> name, payload |-> payload,
   req |-> r.id, asked |-> r.kind, given |-> r.payload,
   settled |-> settled, data |-> data]

(* ------------------------------ inputs --------------------------------- *)

URLs == {"urlA", "urlB"}

\* statusSeverityDescription of the TFL scheme for each statusSeverity.
SeverityDescription(s) ==
  CASE s = 0 -> "Special Service"  [] s = 1 -> "Closed"
    [] s = 2 -> "Suspended"        [] s = 3 -> "Part Suspended"
    [] s = 4 -> "Planned Closure"  [] s = 5 -> "Part Closure"
    [] s = 6 -> "Severe Delays"    [] s = 7 -> "Reduced Service"
    [] s = 8 -> "Bus Service"      [] s = 9 -> "Minor Delays"
    [] s = 10 -> "Good Service"    [] s = 11 -> "Part Closed"
    [] s = 12 -> "Exit Only"       [] s = 13 -> "No Step Free Access"
    [] s = 14 -> "Change of frequency" [] s = 15 -> "Diverted"
    [] s = 16 -> "Not Running"     [] s = 17 -> "Issues Reported"
    [] s = 18 -> "No Issues"       [] s = 19 -> "Information"
    [] s = 20 -> "Service Closed"  [] OTHER -> "Unknown"

LineStatus(s, reason, disruption) ==
  [statusSeverity |-> s, statusSeverityDescription |-> SeverityDescription(s),
   reason |-> reason, disruption |-> disruption]

NestedDisruption(description, category, categoryDescription) ==
  [type |-> "object", description |-> description,
   category |-> category, categoryDescription |-> categoryDescription]

Disruption(description, category, categoryDescription) ==
  [description |-> description,
   category |-> category, categoryDescription |-> categoryDescription]

Line(lineStatuses, disruptions) ==
  [type |-> "line", lineStatuses |-> lineStatuses, disruptions |-> disruptions]

SeqsUpTo(S, n) == UNION {[1..k -> S] : k \in 0..n}

\* Severities on either side of 10 from each class of the mapping: good
\* (10, 18), severe (3, 20) and warning (0, 9, 11, 15).
ListSeverities == {0, 3, 9, 10, 11, 15, 18, 20}

\* Statuses that differ in severity only (inputs of the worst-status loop).
SeverityStatuses == {LineStatus(s, "", JsUndefined) : s \in ListSeverities}

NestedDisruptions ==
  {JsUndefined,
   NestedDisruption("", "RealTime", "Real Time"),
   NestedDisruption("Signal failure", "PlannedWork", "")}

\* Statuses that differ in their texts (inputs of the message building).
TextStatuses ==
  {LineStatus(6, "", d) : d \in NestedDisruptions}
  \cup {LineStatus(9, "Delays", d) : d \in NestedDisruptions}

TopDisruptions ==
  {Disruption("", "RealTime", "Real Time"),
   Disruption("Delays", "", ""),
   Disruption("Signal failure", "RealTime", "Real Time")}

SeverityLines ==
  {Line(JsArray(ls), JsArray(<<>>)) : ls \in SeqsUpTo(SeverityStatuses, MaxStatuses)}

TextLines ==
  {Line(JsArray(ls), JsArray(ds)) :
     ls \in SeqsUpTo(TextStatuses, MaxTextStatuses),
     ds \in SeqsUpTo(TopDisruptions, MaxDisruptions)}

\* Bodies of a line-status GET that resolves.
LineStatusBodies ==
  {JsNull, JsObject, JsString, JsArray(<<>>), JsArray(<<JsNull>>),
   JsArray(<<Line(JsArray(<<LineStatus(10, "", JsUndefined)>>), JsArray(<<>>))>>),
   JsArray(<<Line(JsArray(<<LineStatus(9, "Delays", JsUndefined),
                            LineStatus(6, "", NestedDisruption("Signal failure", "RealTime", "Real Time"))>>),
                  JsArray(<<Disruption("Delays", "", "")>>))>>)}

\* A TFLArrival record (only its identity matters to the helper).
Arrival(id) == [type |-> "arrival", id |-> id]

\* Bodies of an arrivals GET that resolves.
ArrivalsBodies ==
  {JsArray(<<Arrival("arrival1"), Arrival("arrival2")>>), JsObject}

(* ------------------------------ the helper ----------------------------- *)

NoCall == [fn |-> "none"]

\* start(): this.result = null; url, serviceURL and tubeStatus are not set.
HelperInit ==
  /\ url = UndefinedStr
  /\ serviceURL = UndefinedStr
  /\ result = JsNull
  /\ tubeStatus = UndefinedStr
  /\ inflight = {}
  /\ sent = <<>>
  /\ nreq = 0

Init == HelperInit /\ arg = NoCall /\ ret = NoCall

\* socketNotificationReceived("GET-TUBE-STATUS", payload) -> getTubeStatusData
GetTubeStatus(payload) ==
  /\ nreq < MaxRequests
  /\ url' = payload
  /\ nreq' = nreq + 1
  /\ inflight' = inflight \cup {[id |-> nreq + 1, kind |-> "GET-TUBE-STATUS", payload |-> payload]}
  /\ UNCHANGED <<serviceURL, result, tubeStatus, sent, arg, ret>>

\* socketNotificationReceived("GET-TUBE-LINE-STATUS", payload) -> getTubeLineStatusData
GetTubeLineStatus(payload) ==
  /\ nreq < MaxRequests
  /\ serviceURL' = payload
  /\ nreq' = nreq + 1
  /\ inflight' = inflight \cup {[id |-> nreq + 1, kind |-> "GET-TUBE-LINE-STATUS", payload |-> payload]}
  /\ UNCHANGED <<url, result, tubeStatus, sent, arg, ret>>

\* axios.get(this.url) resolves: the then-callback of getTubeStatusData.
TubeStatusThen(r, data) ==
  /\ r \in inflight /\ r.kind = "GET-TUBE-STATUS"
  /\ inflight' = inflight \ {r}
  /\ result' = data
  /\ sent' = Append(sent, Notification("GOT-TUBE-TIMES",
                 [url |-> url, result |-> ArrivalsThenResult(data, result)],
                 r, "resolved", data))
  /\ UNCHANGED <<url, serviceURL, tubeStatus, nreq, arg, ret>>

\* axios.get(this.url) rejects: the catch-callback of getTubeStatusData.
TubeStatusCatch(r) ==
  /\ r \in inflight /\ r.kind = "GET-TUBE-STATUS"
  /\ inflight' = inflight \ {r}
  /\ result' = JsNull
  /\ sent' = Append(sent, Notification("GOT-TUBE-TIMES",
                 [url |-> url, result |-> JsNull], r, "rejected", JsUndefined))
  /\ UNCHANGED <<url, serviceURL, tubeStatus, nreq, arg, ret>>

LineStatusCatchEffect_Silent(r, settled, data) ==
  /\ result' = JsNull
  /\ UNCHANGED <<sent, tubeStatus>>

\* The catch-callback of getTubeLineStatusData, run for request r.
LineStatusCatchEffect(r, settled, data) ==
  /\ result' = JsNull
  /\ sent' = Append(sent, Notification("GOT-TUBE-LINE-STATUS",
                 LineStatusCatchPayload(serviceURL, tubeStatus), r, settled, data))
  /\ UNCHANGED tubeStatus

\* axios.get(this.serviceURL) resolves: the then-callback of
\* getTubeLineStatusData, and the catch-callback when it throws.
TubeLineStatusThen(r, data) ==
  /\ r \in inflight /\ r.kind = "GET-TUBE-LINE-STATUS"
  /\ inflight' = inflight \ {r}
  /\ IF LineStatusThenThrows(data)
     THEN LineStatusCatchEffect(r, "resolved", data)
     ELSE LET payload == LineStatusThenPayload(data, serviceURL)
          IN  /\ tubeStatus' = payload.tubeStatus
              /\ sent' = Append(sent, Notification("GOT-TUBE-LINE-STATUS",
                             payload, r, "resolved", data))
              /\ UNCHANGED result
  /\ UNCHANGED <<url, serviceURL, nreq, arg, ret>>

\* axios.get(this.serviceURL) rejects: the catch-callback.
TubeLineStatusCatch(r) ==
  /\ r \in inflight /\ r.kind = "GET-TUBE-LINE-STATUS"
  /\ inflight' = inflight \ {r}
  /\ LineStatusCatchEffect(r, "rejected", JsUndefined)
  /\ UNCHANGED <<url, serviceURL, nreq, arg, ret>>

\* The GET of request id settles (resolves or rejects) and its callback runs.
Settle(id) ==
  \E r \in inflight :
    /\ r.id = id
    /\ \/ \E data \in ArrivalsBodies : TubeStatusThen(r, data)
       \/ TubeStatusCatch(r)
       \/ \E data \in LineStatusBodies : TubeLineStatusThen(r, data)
       \/ TubeLineStatusCatch(r)

Next ==
  \/ \E payload \in URLs : GetTubeStatus(payload)
  \/ \E payload \in URLs : GetTubeLineStatus(payload)
  \/ \E r \in inflight : \E data \in ArrivalsBodies : TubeStatusThen(r, data)
  \/ \E r \in inflight : TubeStatusCatch(r)
  \/ \E r \in inflight : \E data \in LineStatusBodies : TubeLineStatusThen(r, data)
  \/ \E r \in inflight : TubeLineStatusCatch(r)

Spec == Init /\ [][Next]_vars

\* Every GET promise settles: axios resolves or rejects each request.
FairSpec == Spec /\ \A id \in 1..MaxRequests : WF_vars(Settle(id))

(* ------------------ the computations, applied to inputs ---------------- *)

FnInputs ==
  {[fn |-> "mapStatusSeverity", statusSeverity |-> s] : s \in 0..MaxSeverity}
  \cup {[fn |-> "lineStatus", lineData |-> l] : l \in SeverityLines \cup TextLines}

FnInit == HelperInit /\ arg \in FnInputs /\ ret = NoCall

ApplyMapStatusSeverity ==
  /\ arg.fn = "mapStatusSeverity" /\ ret = NoCall
  /\ ret' = [fn |-> "mapStatusSeverity", value |-> mapStatusSeverity(arg.statusSeverity)]
  /\ UNCHANGED <<helperVars, arg>>

\* The then-callback's locals for response.data = [arg.lineData].
ApplyLineStatus ==
  /\ arg.fn = "lineStatus" /\ ret = NoCall
  /\ LET lineStatuses == OrEmpty(arg.lineData.lineStatuses)
         disruptions == OrEmpty(arg.lineData.disruptions)
     IN  ret' = [fn |-> "lineStatus",
                 allMessages |-> allMessages(lineStatuses, disruptions),
                 payload |-> LineStatusThenPayload(JsArray(<<arg.lineData>>), "urlA")]
  /\ UNCHANGED <<helperVars, arg>>

FnNext == ApplyMapStatusSeverity \/ ApplyLineStatus

FnSpec == FnInit /\ [][FnNext]_vars

(* ======================= properties of the helper ====================== *)

\* Positions in the notification log of the responses made for request id.
Responses(id) == {i \in 1..Len(sent) : sent[i].req = id}

\* The response notification that answers a request notification.
Reply(asked) ==
  IF asked = "GET-TUBE-STATUS" THEN "GOT-TUBE-TIMES" ELSE "GOT-TUBE-LINE-STATUS"

IsLineResponse(i) == sent[i].notification = "GOT-TUBE-LINE-STATUS"

IsArrivalsResponse(i) == sent[i].notification = "GOT-TUBE-TIMES"

\* The k-th smallest element of a finite set of integers.
NthOf(idx, k) == CHOOSE i \in idx : Cardinality({j \in idx : j < i}) = k - 1

\* C1: every request (GET-TUBE-STATUS or GET-TUBE-LINE-STATUS) gets exactly
\* one response event of the matching kind, whatever the GET's outcome and
\* whatever else is in flight: never two, no response is ever withdrawn,
\* and eventually one.
C1_ExactlyOneResponse ==
  /\ [](\A id \in 1..MaxRequests :
          /\ Cardinality(Responses(id)) <= 1
          /\ \A i \in Responses(id) : sent[i].notification = Reply(sent[i].asked))
  /\ [][Len(sent') >= Len(sent) /\ SubSeq(sent', 1, Len(sent)) = sent]_vars
  /\ \A id \in 1..MaxRequests :
       (id <= nreq) ~> (Cardinality(Responses(id)) = 1)

\* C1 witness: two requests were in flight together, the second was answered
\* first, one GET rejected and one resolved, and each has its one response.
C1_Witness ==
  /\ nreq = 2 /\ Len(sent) = 2 /\ inflight = {}
  /\ sent[1].req = 2 /\ sent[2].req = 1
  /\ sent[1].settled = "rejected" /\ sent[2].settled = "resolved"
  /\ sent[1].asked = "GET-TUBE-LINE-STATUS" /\ sent[2].asked = "GET-TUBE-STATUS"

\* The status the most recent line-status response before position i carried
\* ("good" when there is none).
LastStatusBefore(i) ==
  LET earlier == {j \in 1..(i - 1) : IsLineResponse(j)}
  IN  IF earlier = {} THEN "good"
      ELSE sent[CHOOSE j \in earlier : \A k \in earlier : k <= j].payload.tubeStatus

\* C4: a line-status fetch whose GET fails answers with an empty message
\* list and the status of the most recently completed line-status fetch
\* ("good" if none); the failure and any arrivals fetch leave the last known
\* status unchanged.
C4_FailureKeepsLastStatus ==
  /\ [](\A i \in 1..Len(sent) :
          (IsLineResponse(i) /\ sent[i].settled = "rejected") =>
            /\ sent[i].payload.combinedMessages = <<>>
            /\ sent[i].payload.tubeStatus = LastStatusBefore(i))
  /\ [][(\E r \in inflight :
           TubeLineStatusCatch(r) \/ TubeStatusCatch(r)
           \/ \E data \in ArrivalsBodies : TubeStatusThen(r, data))
        => tubeStatus' = tubeStatus]_vars

\* C4 witness: a successful fetch reported "severe", then a GET failed and the
\* failure response carries "severe".
C4_Witness ==
  /\ Len(sent) = 2
  /\ IsLineResponse(1) /\ sent[1].settled = "resolved" /\ sent[1].payload.tubeStatus = "severe"
  /\ IsLineResponse(2) /\ sent[2].settled = "rejected" /\ sent[2].payload.tubeStatus = "severe"

\* C5 (as claimed): each response carries the URL its own request was given.
C5_ResponseCarriesOwnURL ==
  \A i \in 1..Len(sent) :
    IF IsArrivalsResponse(i) THEN sent[i].payload.url = sent[i].given
    ELSE sent[i].payload.serviceURL = sent[i].given

\* A resolved body that is not an array of the expected records.
Malformed(data) ==
  \/ data.type # "array"
  \/ (Len(data.items) > 0 /\ data.items[1] = JsNull)

\* C6 (as claimed): a malformed body is answered exactly as a network failure
\* is: null result for arrivals; last known status (or "good") and no messages
\* for line status.
C6_MalformedLikeFailure ==
  \A i \in 1..Len(sent) :
    (sent[i].settled = "resolved" /\ Malformed(sent[i].data)) =>
      IF IsArrivalsResponse(i) THEN sent[i].payload.result = JsNull
      ELSE sent[i].payload =
             [serviceURL |-> sent[i].payload.serviceURL,
              tubeStatus |-> LastStatusBefore(i),
              combinedMessages |-> <<>>]

\* C10: an arrivals response carries the upstream array itself when the GET
\* resolves and null when it rejects, whatever line-status fetch completed or
\* failed in between.
C10_ArrivalsResultVerbatim ==
  \A i \in 1..Len(sent) :
    IsArrivalsResponse(i) =>
      /\ sent[i].settled = "resolved" => sent[i].payload.result = sent[i].data
      /\ sent[i].settled = "rejected" => sent[i].payload.result = JsNull

\* C10 witness: while an arrivals GET was in flight a line-status GET failed
\* (writing this.result = null); the arrivals response still carries its array.
C10_Witness ==
  /\ Len(sent) = 2
  /\ IsLineResponse(1) /\ sent[1].settled = "rejected" /\ sent[1].req = 2
  /\ IsArrivalsResponse(2) /\ sent[2].settled = "resolved" /\ sent[2].req = 1
  /\ sent[2].payload.result = JsArray(<<Arrival("arrival1"), Arrival("arrival2")>>)

(* =================== properties of the computations ==================== *)

GoodSeverities == {10, 18, 19}

SevereSeverities == {1, 2, 3, 6, 16, 20}

InLineStatuses == OrEmpty(arg.lineData.lineStatuses)

InDisruptions == OrEmpty(arg.lineData.disruptions)

\* C9: over 0..20 the mapping yields "good" exactly for {10,18,19}, "severe"
\* exactly for {1,2,3,6,16,20} and "warning" for every other value.
C9_MappingTable ==
  ret.fn = "mapStatusSeverity" =>
    LET s == arg.statusSeverity
    IN  /\ s \in 0..MaxSeverity
        /\ ret.value \in {"good", "severe", "warning"}
        /\ ret.value = "good" <=> s \in GoodSeverities
        /\ ret.value = "severe" <=> s \in SevereSeverities
        /\ ret.value = "warning" <=> s \notin GoodSeverities \cup SevereSeverities

C9_Witness ==
  ret.fn = "mapStatusSeverity" /\ arg.statusSeverity = 20 /\ ret.value = "severe"

\* C2: the aggregate status is the mapping of the smallest severity outside
\* {10,18,19}, in whatever order the entries come, and "good" when there is
\* no such entry (or no entry at all).
C2_WorstIsSmallestNonGood ==
  ret.fn = "lineStatus" =>
    LET nonGood == {InLineStatuses[i].statusSeverity : i \in 1..Len(InLineStatuses)}
                   \ GoodSeverities
        smallest == CHOOSE s \in nonGood : \A t \in nonGood : s <= t
    IN  ret.payload.tubeStatus =
          IF nonGood = {} THEN "good"
          ELSE IF smallest \in SevereSeverities THEN "severe" ELSE "warning"

\* C2 witness: the first non-good severity is above 10 and a later one is the
\* smallest.
C2_Witness ==
  /\ ret.fn = "lineStatus" /\ Len(InLineStatuses) = 4
  /\ InLineStatuses[1].statusSeverity = 10
  /\ InLineStatuses[2].statusSeverity = 15
  /\ InLineStatuses[3].statusSeverity = 18
  /\ InLineStatuses[4].statusSeverity = 3
  /\ ret.payload.tubeStatus = "severe"

\* C7: tubeStatusDescription is the first entry's severity description when
\* the aggregate status is not "good" (whichever entry was the worst), and
\* null when it is "good".
C7_DescriptionOfFirstEntry ==
  ret.fn = "lineStatus" =>
    ret.payload.tubeStatusDescription =
      IF ret.payload.tubeStatus # "good"
      THEN InLineStatuses[1].statusSeverityDescription
      ELSE NullStr

\* C7 witness: the first entry is Good Service, a later one makes the line
\* severe, and the description is the first entry's.
C7_Witness ==
  /\ ret.fn = "lineStatus" /\ Len(InLineStatuses) = 2
  /\ InLineStatuses[1].statusSeverity = 10
  /\ InLineStatuses[2].statusSeverity = 3
  /\ ret.payload.tubeStatus = "severe"
  /\ ret.payload.tubeStatusDescription = "Good Service"

\* C3: combinedMessages is the concatenated list without the later entries of
\* an already-seen text: texts pairwise distinct and non-empty, each kept
\* message the first of its text, kept messages in concatenation order.
C3_FirstOccurrenceWins ==
  ret.fn = "lineStatus" =>
    LET all == ret.allMessages
        out == ret.payload.combinedMessages
        first == {i \in 1..Len(all) :
                    all[i].text # "" /\ \A j \in 1..(i - 1) : all[j].text # all[i].text}
    IN  /\ \A a, b \in 1..Len(out) : a # b => out[a].text # out[b].text
        /\ \A a \in 1..Len(out) : out[a].text # ""
        /\ Len(out) = Cardinality(first)
        /\ \A k \in 1..Len(out) : out[k] = all[NthOf(first, k)]

\* C3 witness: a status message and a later disruption message share a text
\* and only the status message is kept, before a message of another text.
C3_Witness ==
  /\ ret.fn = "lineStatus"
  /\ Len(ret.allMessages) = 4
  /\ ret.allMessages[1].text = "Delays" /\ ret.allMessages[1].statusSeverity = 9
  /\ ret.allMessages[2].text = "Signal failure"
  /\ ret.allMessages[3].text = "Delays" /\ ret.allMessages[3].statusSeverity = 0
  /\ ret.allMessages[4].text = "Signal failure"
  /\ Len(ret.payload.combinedMessages) = 2
  /\ ret.payload.combinedMessages[1] = ret.allMessages[1]

\* C8: before deduplication the list holds, in order, one message per
\* LineStatus entry with a non-empty reason or a nested disruption with a
\* non-empty description (text = reason, else that description; severity and
\* description copied; category fields from the nested disruption or ""),
\* then one per top-level disruption with a non-empty description (severity
\* 0, description ""); other entries give no message.
C8_MessagesBeforeDedup ==
  ret.fn = "lineStatus" =>
    LET ls == InLineStatuses
        ds == InDisruptions
        nested(i) == ls[i].disruption # JsUndefined
        si == {i \in 1..Len(ls) :
                 ls[i].reason # "" \/ (nested(i) /\ ls[i].disruption.description # "")}
        di == {i \in 1..Len(ds) : ds[i].description # ""}
        ns == Cardinality(si)
        nd == Cardinality(di)
        all == ret.allMessages
    IN  /\ Len(all) = ns + nd
        /\ \A k \in 1..ns :
             LET e == ls[NthOf(si, k)]
                 has == e.disruption # JsUndefined
             IN  all[k] =
                   [text |-> IF e.reason # "" THEN e.reason ELSE e.disruption.description,
                    statusSeverity |-> e.statusSeverity,
                    statusSeverityDescription |-> e.statusSeverityDescription,
                    category |-> IF has THEN e.disruption.category ELSE "",
                    categoryDescription |->
                      IF has THEN e.disruption.categoryDescription ELSE ""]
        /\ \A k \in 1..nd :
             LET d == ds[NthOf(di, k)]
             IN  all[ns + k] =
                   [text |-> d.description,
                    statusSeverity |-> 0,
                    statusSeverityDescription |-> "",
                    category |-> d.category,
                    categoryDescription |-> d.categoryDescription]

\* C8 witness: one entry with neither text gives no message, one entry gives
\* its nested description, and a top-level disruption follows.
C8_Witness ==
  /\ ret.fn = "lineStatus"
  /\ Len(InLineStatuses) = 3 /\ Len(InDisruptions) = 2
  /\ InLineStatuses[1].reason = "" /\ InLineStatuses[1].disruption = JsUndefined
  /\ InLineStatuses[2].reason = "" /\ InLineStatuses[2].disruption # JsUndefined
  /\ InLineStatuses[2].disruption.description = "Signal failure"
  /\ InLineStatuses[3].reason = "Delays" /\ InLineStatuses[3].disruption # JsUndefined
  /\ InDisruptions[1].description = ""
  /\ InDisruptions[2].description = "Delays"
  /\ Len(ret.allMessages) = 3
  /\ ret.allMessages[1].text = "Signal failure"
  /\ ret.allMessages[2].text = "Delays"
  /\ ret.allMessages[3].statusSeverity = 0

====
